---- MODULE Spec2Model ----
(***************************************************************************)
(* A model of the aud2 library: the knapsack solvers of src/src/knapsack.rs *)
(* (fractional greedy, dynamic programming, integer greedy, greedy-k and    *)
(* branch-and-bound) and the subset-sum table of src/src/subset_sum.rs.     *)
(*                                                                         *)
(* An item is a record [profit, weight]; the solvers hold references to    *)
(* the caller's items, modelled as 1-based positions in the input sequence *)
(* `items` (position i models &items[i-1]).  Every solver is a loop; one   *)
(* action of the model is one iteration of that loop.  All numbers of the  *)
(* model stay far below 2^64, so u64 sums never overflow here.             *)
(***************************************************************************)
EXTENDS Integers, Sequences, FiniteSets, TLC

VARIABLES
    pc,               \* position of the running solver
    items,            \* the caller's item list
    weight_capacity,  \* the weight limit given to the solver
    overflow_checks,  \* the build: TRUE when integer overflow panics (debug), FALSE when it wraps
    row,              \* dynamic programming: the row of knapsacks, cell w at row[w + 1]
    item_nr,          \* dynamic programming: number of items fully processed
    index,            \* dynamic programming: the cell the inner loop visits next
    items_sorted_asc, \* greedy solvers: the item references sorted by weight/profit ratio
    item_index,       \* greedy solvers: how many sorted items the loop has visited
    knapsack,         \* greedy solvers: the knapsack filled so far
    stack,            \* branch and bound: the frames of the recursion, innermost last
    ret,              \* branch and bound: the value the last finished call returned
    lower_bound,      \* branch and bound: lower_bound of the call entered last
    upper_bound,      \* branch and bound: upper_bound of the call entered last
    k,                \* greedy-k: the number of fixed items
    combination_nr,   \* greedy-k: how many combinations have been processed
    best_knapsack,    \* greedy-k: the best knapsack so far, <<>> (none) or <<knapsack>>
    numbers,          \* subset sum: the input numbers
    table,            \* subset sum: the rows computed so far
    result            \* what the solver returned

vars == <<pc, items, weight_capacity, overflow_checks, row, item_nr, index,
          items_sorted_asc, item_index, knapsack, stack, ret, lower_bound,
          upper_bound, k, combination_nr, best_knapsack, numbers, table, result>>

dpVars == <<row, item_nr, index>>
greedyVars == <<items_sorted_asc, item_index, knapsack>>
bbVars == <<stack, ret, lower_bound, upper_bound>>
gkVars == <<k, combination_nr, best_knapsack>>
ssVars == <<numbers, table>>
inputVars == <<items, weight_capacity, overflow_checks>>

(* The variables of the solvers that are not running. *)
DPIdle == row = <<>> /\ item_nr = 0 /\ index = 0
GreedyIdle == items_sorted_asc = <<>> /\ item_index = 0 /\ knapsack = <<>>
BBIdle == stack = <<>> /\ ret = 0 /\ lower_bound = 0 /\ upper_bound = 0
GKIdle == k = 0 /\ combination_nr = 0 /\ best_knapsack = <<>>
SSIdle == numbers = <<>> /\ table = <<>>
KnapsackIdle == items = <<>> /\ weight_capacity = 0 /\ overflow_checks = TRUE

-----------------------------------------------------------------------------
(* Bounds of the enumerated inputs. *)

MaxItems == 3
MaxCap == 4
Profits == 1..3
Weights == 0..3

Item == [profit : Profits, weight : Weights]

SeqsUpTo(S, n) == UNION {[1..len -> S] : len \in 0..n}

(* The instance of test_maximum_knapsack / test_dynamic_programming. *)
MaxKnapsackItems ==
    << [profit |-> 6, weight |-> 2], [profit |-> 5, weight |-> 3],
       [profit |-> 8, weight |-> 6], [profit |-> 9, weight |-> 7],
       [profit |-> 6, weight |-> 5], [profit |-> 7, weight |-> 9],
       [profit |-> 3, weight |-> 4] >>

MaxKnapsackLimit == 9

(* The 16 items of the tests' ITEMS (ids 1..16) and their weight capacity. *)
ITEMS ==
    << [profit |-> 3, weight |-> 20], [profit |-> 3, weight |-> 32],
       [profit |-> 10, weight |-> 40], [profit |-> 5, weight |-> 8],
       [profit |-> 2, weight |-> 16], [profit |-> 4, weight |-> 4],
       [profit |-> 2, weight |-> 32], [profit |-> 9, weight |-> 40],
       [profit |-> 2, weight |-> 8], [profit |-> 5, weight |-> 32],
       [profit |-> 3, weight |-> 28], [profit |-> 9, weight |-> 20],
       [profit |-> 10, weight |-> 16], [profit |-> 3, weight |-> 20],
       [profit |-> 10, weight |-> 40], [profit |-> 4, weight |-> 24] >>

ItemsWeightCapacity == 120

(* Every item list of at most MaxItems items with every capacity to MaxCap. *)
Enumerated ==
    {[items |-> s, cap |-> c] : s \in SeqsUpTo(Item, MaxItems), c \in 0..MaxCap}

DPInstances ==
    Enumerated \cup {[items |-> MaxKnapsackItems, cap |-> MaxKnapsackLimit]}

GreedyInstances ==
    Enumerated \cup {[items |-> ITEMS, cap |-> ItemsWeightCapacity]}

-----------------------------------------------------------------------------
(* Sums over a list of item references. *)

RECURSIVE ProfitSum(_, _)
ProfitSum(its, refs) ==
    IF refs = <<>> THEN 0
    ELSE its[Head(refs)].profit + ProfitSum(its, Tail(refs))

RECURSIVE WeightSum(_, _)
WeightSum(its, refs) ==
    IF refs = <<>> THEN 0
    ELSE its[Head(refs)].weight + WeightSum(its, Tail(refs))

(* The subtraction that adds. *)
SaturatingSub_Add(a, b) == a + b

SaturatingSub(a, b) == IF b > a THEN 0 ELSE a - b

-----------------------------------------------------------------------------
(* fraction::Fraction, the exact rationals of the `fraction` crate.  A      *)
(* value is [num, den] in lowest terms with den > 0; den = 0 is Infinity   *)
(* (num = 1) or NaN (num = 0), what the crate makes of a division by zero. *)

RECURSIVE GCD(_, _)
GCD(a, b) == IF b = 0 THEN a ELSE GCD(b, a % b)

Abs(x) == IF x < 0 THEN -x ELSE x

Infinity == [num |-> 1, den |-> 0]
NaN == [num |-> 0, den |-> 0]

FractionNew(n, d) ==
    IF d = 0 THEN (IF n = 0 THEN NaN ELSE Infinity)
    ELSE LET g == GCD(Abs(n), d)
         IN  [num |-> n \div g, den |-> d \div g]

FractionFrom(n) == [num |-> n, den |-> 1]

IsFinite(f) == f.den # 0

FractionAdd(f, g) == FractionNew(f.num * g.den + g.num * f.den, f.den * g.den)
FractionSub(f, g) == FractionNew(f.num * g.den - g.num * f.den, f.den * g.den)
FractionMul(f, g) == FractionNew(f.num * g.num, f.den * g.den)

(* Division of a non-negative fraction: by zero it is Infinity, or NaN for *)
(* 0 / 0.                                                                  *)
FractionDiv(f, g) ==
    IF g.num = 0 THEN (IF f.num = 0 THEN NaN ELSE Infinity)
    ELSE FractionNew(f.num * g.den, f.den * g.num)

(* partial_cmp: "None" when a NaN takes part. *)
PartialCmp(f, g) ==
    IF f = NaN \/ g = NaN THEN "None"
    ELSE IF f = Infinity THEN (IF g = Infinity THEN "Equal" ELSE "Greater")
    ELSE IF g = Infinity THEN "Less"
    ELSE IF f.num * g.den < g.num * f.den THEN "Less"
    ELSE IF f.num * g.den > g.num * f.den THEN "Greater"
    ELSE "Equal"

Zero == FractionFrom(0)
One == FractionFrom(1)

-----------------------------------------------------------------------------
(* Item::weight_profit_ratio, cmp_items and the stable sort_by(cmp_items). *)

weight_profit_ratio(item) == FractionNew(item.weight, item.profit)

cmp_items(its, a, b) ==
    PartialCmp(weight_profit_ratio(its[a]), weight_profit_ratio(its[b]))

(* The insertion that puts x in front of the elements it is equal to. *)
RECURSIVE InsertSorted_Unstable(_, _, _)
InsertSorted_Unstable(its, sorted, x) ==
    IF sorted = <<>> THEN <<x>>
    ELSE IF cmp_items(its, Head(sorted), x) # "Less"
         THEN <<x>> \o sorted
         ELSE <<Head(sorted)>> \o InsertSorted_Unstable(its, Tail(sorted), x)

(* Insert reference x behind every reference that does not compare          *)
(* greater: equal ratios keep their input order, as a stable sort does.     *)
RECURSIVE InsertSorted(_, _, _)
InsertSorted(its, sorted, x) ==
    IF sorted = <<>> THEN <<x>>
    ELSE IF cmp_items(its, Head(sorted), x) = "Greater"
         THEN <<x>> \o sorted
         ELSE <<Head(sorted)>> \o InsertSorted(its, Tail(sorted), x)

RECURSIVE SortFrom(_, _, _)
SortFrom(its, refs, sorted) ==
    IF refs = <<>> THEN sorted
    ELSE SortFrom(its, Tail(refs), InsertSorted(its, sorted, Head(refs)))

(* refs sorted ascending by weight/profit ratio. *)
SortByRatio(its, refs) == SortFrom(its, refs, <<>>)

AllRefs(its) == [i \in 1..Len(its) |-> i]

(* cmp_items panics (`expect`) when partial_cmp gives None.  Inserting x    *)
(* panics when one of the comparisons the insertion makes is with a NaN.   *)
RECURSIVE InsertPanics(_, _, _)
InsertPanics(its, sorted, x) ==
    /\ sorted # <<>>
    /\ \/ cmp_items(its, Head(sorted), x) = "None"
       \/ /\ cmp_items(its, Head(sorted), x) # "Greater"
          /\ InsertPanics(its, Tail(sorted), x)

RECURSIVE SortFromPanics(_, _, _)
SortFromPanics(its, refs, sorted) ==
    /\ refs # <<>>
    /\ \/ InsertPanics(its, sorted, Head(refs))
       \/ SortFromPanics(its, Tail(refs), InsertSorted(its, sorted, Head(refs)))

(* sort_by(cmp_items) panics inside the comparator. *)
SortPanics(its, refs) == SortFromPanics(its, refs, <<>>)

-----------------------------------------------------------------------------
(* knapsack_dynamic_programming *)

EmptyRow(cap) == [w \in 1..(cap + 1) |-> <<>>]

(* The loop body with the affordability test `weight >= limit`: an item    *)
(* that fits exactly is rejected.                                          *)
DPCell_TightFit(its, r, it, idx) ==
    IF its[it].weight >= idx THEN r
    ELSE LET remaining_weight == SaturatingSub(idx, its[it].weight)
             other_items == r[remaining_weight + 1]
             new_profit == its[it].profit + ProfitSum(its, other_items)
             old_profit == ProfitSum(its, r[idx + 1])
         IN  IF new_profit <= old_profit THEN r
             ELSE [r EXCEPT ![idx + 1] = Append(other_items, it)]

(* The loop body without the affordability test: saturating_sub then hides *)
(* the missing weight.                                                     *)
DPCell_NoFitTest(its, r, it, idx) ==
    LET remaining_weight == SaturatingSub(idx, its[it].weight)
        other_items == r[remaining_weight + 1]
        new_profit == its[it].profit + ProfitSum(its, other_items)
        old_profit == ProfitSum(its, r[idx + 1])
    IN  IF new_profit <= old_profit THEN r
        ELSE [r EXCEPT ![idx + 1] = Append(other_items, it)]

(* The loop body that leaves out the items of weight 0. *)
DPCell_SkipWeightless(its, r, it, idx) ==
    IF its[it].weight > idx \/ its[it].weight = 0 THEN r
    ELSE LET remaining_weight == SaturatingSub(idx, its[it].weight)
             other_items == r[remaining_weight + 1]
             new_profit == its[it].profit + ProfitSum(its, other_items)
             old_profit == ProfitSum(its, r[idx + 1])
         IN  IF new_profit <= old_profit THEN r
             ELSE [r EXCEPT ![idx + 1] = Append(other_items, it)]

(* The loop body that takes an item only at the cell of its own weight. *)
DPCell_ExactFit(its, r, it, idx) ==
    IF its[it].weight # idx THEN r
    ELSE LET remaining_weight == SaturatingSub(idx, its[it].weight)
             other_items == r[remaining_weight + 1]
             new_profit == its[it].profit + ProfitSum(its, other_items)
             old_profit == ProfitSum(its, r[idx + 1])
         IN  IF new_profit <= old_profit THEN r
             ELSE [r EXCEPT ![idx + 1] = Append(other_items, it)]

(* The body of the inner loop: item `it` at the cell of weight limit idx.  *)
DPCell(its, r, it, idx) ==
    IF its[it].weight > idx THEN r
    ELSE LET remaining_weight == SaturatingSub(idx, its[it].weight)
             other_items == r[remaining_weight + 1]
             new_profit == its[it].profit + ProfitSum(its, other_items)
             old_profit == ProfitSum(its, r[idx + 1])
         IN  IF new_profit <= old_profit THEN r
             ELSE [r EXCEPT ![idx + 1] = Append(other_items, it)]

(* assert!(remaining_weight < row.len()) fires for an item that passed the *)
(* affordability test.                                                     *)
DPAssertFails(its, r, it, idx) ==
    /\ ~(its[it].weight > idx)
    /\ ~(SaturatingSub(idx, its[it].weight) < Len(r))

(* The inner loop from cell idx down to cell 0. *)
RECURSIVE DPItemFrom(_, _, _, _)
DPItemFrom(its, r, it, idx) ==
    IF idx < 0 THEN r
    ELSE DPItemFrom(its, DPCell(its, r, it, idx), it, idx - 1)

(* The outer loop over the items it..Len(its). *)
RECURSIVE DPItemsFrom(_, _, _)
DPItemsFrom(its, r, it) ==
    IF it > Len(its) THEN r
    ELSE DPItemsFrom(its, DPItemFrom(its, r, it, Len(r) - 1), it + 1)

(* row.pop().unwrap_or_default() *)
RowPop(r) == IF r = <<>> THEN <<>> ELSE r[Len(r)]

knapsack_dynamic_programming(its, cap) ==
    RowPop(DPItemsFrom(its, EmptyRow(cap), 1))

DPInit ==
    \E inst \in DPInstances :
        /\ items = inst.items
        /\ weight_capacity = inst.cap
        /\ row = EmptyRow(inst.cap)
        /\ item_nr = 0
        /\ index = inst.cap
        /\ overflow_checks = TRUE
        /\ pc = "dp"
        /\ result = <<>>
        /\ GreedyIdle /\ BBIdle /\ GKIdle /\ SSIdle

(* One iteration of the inner loop; after cell 0 the outer loop advances. *)
DPStep ==
    /\ pc = "dp"
    /\ item_nr < Len(items)
    /\ IF DPAssertFails(items, row, item_nr + 1, index)
       THEN pc' = "panic" /\ UNCHANGED <<row, item_nr, index>>
       ELSE /\ row' = DPCell(items, row, item_nr + 1, index)
            /\ IF index = 0
               THEN item_nr' = item_nr + 1 /\ index' = weight_capacity
               ELSE item_nr' = item_nr /\ index' = index - 1
            /\ UNCHANGED pc
    /\ UNCHANGED <<inputVars, result, greedyVars, ssVars, bbVars, gkVars>>

DPReturn ==
    /\ pc = "dp"
    /\ item_nr = Len(items)
    /\ result' = RowPop(row)
    /\ pc' = "done"
    /\ UNCHANGED <<inputVars, dpVars, greedyVars, ssVars, bbVars, gkVars>>

DPNext == DPStep \/ DPReturn

Spec == DPInit /\ [][DPNext]_vars

-----------------------------------------------------------------------------
(* u64 arithmetic.  Every number of the model is far below 2^31; a         *)
(* negative number r stands for 2^64 + r, the value a wrapping subtraction *)
(* leaves behind (build without overflow checks).                          *)

U64Sub(a, b) == a - b

U64Lt(a, b) == IF (a < 0) = (b < 0) THEN a < b ELSE b < 0

(* a - b leaves the range of u64. *)
Underflows(a, b) == U64Lt(a, b)

-----------------------------------------------------------------------------
(* knapsack_integer_greedy *)

(* The loop body without the test that the item fits. *)
IGBody_NoFitTest(its, sack, new_item, cap) ==
    LET used_knapsack_weight == WeightSum(its, sack)
        available_knapsack_weight == U64Sub(cap, used_knapsack_weight)
    IN  IF available_knapsack_weight = 0
        THEN [brk |-> TRUE, knapsack |-> sack]
        ELSE [brk |-> FALSE, knapsack |-> Append(sack, new_item)]

(* The loop body that ends the walk at the first item that does not fit. *)
IGBody_BreakOnMisfit(its, sack, new_item, cap) ==
    LET used_knapsack_weight == WeightSum(its, sack)
        available_knapsack_weight == U64Sub(cap, used_knapsack_weight)
    IN  IF available_knapsack_weight = 0
        THEN [brk |-> TRUE, knapsack |-> sack]
        ELSE IF U64Lt(available_knapsack_weight, its[new_item].weight)
             THEN [brk |-> TRUE, knapsack |-> sack]
             ELSE [brk |-> FALSE, knapsack |-> Append(sack, new_item)]

(* The body of the loop for the sorted item new_item: break when the       *)
(* knapsack is full, skip an item that weighs too much, else take it.      *)
IGBody(its, sack, new_item, cap) ==
    LET used_knapsack_weight == WeightSum(its, sack)
        available_knapsack_weight == U64Sub(cap, used_knapsack_weight)
    IN  IF available_knapsack_weight = 0
        THEN [brk |-> TRUE, knapsack |-> sack]
        ELSE IF U64Lt(available_knapsack_weight, its[new_item].weight)
             THEN [brk |-> FALSE, knapsack |-> sack]
             ELSE [brk |-> FALSE, knapsack |-> Append(sack, new_item)]

RECURSIVE IGLoop(_, _, _, _)
IGLoop(its, sorted, sack, cap) ==
    IF sorted = <<>> THEN sack
    ELSE LET r == IGBody(its, sack, Head(sorted), cap)
         IN  IF r.brk THEN r.knapsack
             ELSE IGLoop(its, Tail(sorted), r.knapsack, cap)

(* The knapsack the heuristic returns for the item references refs. *)
knapsack_integer_greedy(its, refs, cap) ==
    IGLoop(its, SortByRatio(its, refs), <<>>, cap)

IGInit ==
    \E inst \in GreedyInstances :
        /\ items = inst.items
        /\ weight_capacity = inst.cap
        /\ overflow_checks = TRUE
        /\ pc = "ig_sort"
        /\ items_sorted_asc = <<>>
        /\ item_index = 0
        /\ knapsack = <<>>
        /\ result = <<>>
        /\ DPIdle /\ BBIdle /\ GKIdle /\ SSIdle

IGSort ==
    /\ pc = "ig_sort"
    /\ IF SortPanics(items, AllRefs(items))
       THEN pc' = "panic" /\ UNCHANGED items_sorted_asc
       ELSE /\ items_sorted_asc' = SortByRatio(items, AllRefs(items))
            /\ pc' = "ig"
    /\ UNCHANGED <<inputVars, dpVars, ssVars, bbVars, gkVars, item_index, knapsack, result>>

(* One iteration of the loop over the sorted items. *)
IGStep ==
    /\ pc = "ig"
    /\ item_index < Len(items_sorted_asc)
    /\ IF Underflows(weight_capacity, WeightSum(items, knapsack)) /\ overflow_checks
       THEN pc' = "panic" /\ UNCHANGED <<knapsack, item_index, result>>
       ELSE LET r == IGBody(items, knapsack, items_sorted_asc[item_index + 1],
                            weight_capacity)
            IN  /\ knapsack' = r.knapsack
                /\ IF r.brk
                   THEN pc' = "done" /\ result' = r.knapsack
                            /\ UNCHANGED item_index
                   ELSE item_index' = item_index + 1 /\ UNCHANGED <<pc, result>>
    /\ UNCHANGED <<inputVars, dpVars, ssVars, bbVars, gkVars, items_sorted_asc>>

IGReturn ==
    /\ pc = "ig"
    /\ item_index = Len(items_sorted_asc)
    /\ result' = knapsack
    /\ pc' = "done"
    /\ UNCHANGED <<inputVars, dpVars, greedyVars, ssVars, bbVars, gkVars>>

IGNext == IGSort \/ IGStep \/ IGReturn

SpecIG == IGInit /\ [][IGNext]_vars

-----------------------------------------------------------------------------
(* fractional_knapsack_greedy.  A packed item is [item, take_portion].     *)

effective_weight(its, p) ==
    FractionMul(FractionFrom(its[p.item].weight), p.take_portion)

effective_profit(its, p) ==
    FractionMul(FractionFrom(its[p.item].profit), p.take_portion)

RECURSIVE EffectiveWeightSum(_, _)
EffectiveWeightSum(its, sack) ==
    IF sack = <<>> THEN Zero
    ELSE FractionAdd(effective_weight(its, Head(sack)), EffectiveWeightSum(its, Tail(sack)))

(* packed_items_profit_sum *)
RECURSIVE packed_items_profit_sum(_, _)
packed_items_profit_sum(its, sack) ==
    IF sack = <<>> THEN Zero
    ELSE FractionAdd(effective_profit(its, Head(sack)),
                     packed_items_profit_sum(its, Tail(sack)))

(* The loop body that takes every item whole. *)
FGBody_NoCap(its, sack, new_item, weight_limit) ==
    LET used_knapsack_weight == EffectiveWeightSum(its, sack)
        available_knapsack_weight ==
            FractionSub(FractionFrom(weight_limit), used_knapsack_weight)
    IN  IF weight_limit >= 0 /\ PartialCmp(available_knapsack_weight, Zero) # "Greater"
        THEN [brk |-> TRUE, knapsack |-> sack]
        ELSE [brk |-> FALSE,
              knapsack |-> Append(sack, [item |-> new_item, take_portion |-> One])]

(* The loop body that breaks only when the available weight is below 0. *)
FGBody_BreakBelowZero(its, sack, new_item, weight_limit) ==
    LET used_knapsack_weight == EffectiveWeightSum(its, sack)
        available_knapsack_weight ==
            FractionSub(FractionFrom(weight_limit), used_knapsack_weight)
    IN  IF weight_limit >= 0 /\ PartialCmp(available_knapsack_weight, Zero) = "Less"
        THEN [brk |-> TRUE, knapsack |-> sack]
        ELSE LET quotient == FractionDiv(available_knapsack_weight,
                                         FractionFrom(its[new_item].weight))
                 take_fraction ==
                     IF weight_limit < 0 \/ PartialCmp(quotient, One) = "Greater"
                     THEN One ELSE quotient
             IN  [brk |-> FALSE,
                  knapsack |-> Append(sack, [item |-> new_item,
                                          take_portion |-> take_fraction])]

(* The loop body that passes over an item that does not fit whole. *)
FGBody_SkipMisfit(its, sack, new_item, weight_limit) ==
    LET used_knapsack_weight == EffectiveWeightSum(its, sack)
        available_knapsack_weight ==
            FractionSub(FractionFrom(weight_limit), used_knapsack_weight)
    IN  IF weight_limit >= 0 /\ PartialCmp(available_knapsack_weight, Zero) # "Greater"
        THEN [brk |-> TRUE, knapsack |-> sack]
        ELSE LET quotient == FractionDiv(available_knapsack_weight,
                                         FractionFrom(its[new_item].weight))
             IN  IF weight_limit < 0 \/ PartialCmp(quotient, One) # "Less"
                 THEN [brk |-> FALSE,
                       knapsack |-> Append(sack, [item |-> new_item,
                                               take_portion |-> One])]
                 ELSE [brk |-> FALSE, knapsack |-> sack]

(* The body of the loop for the sorted item new_item: break when no weight *)
(* is available, else take min(1, available / weight) of the item.  A      *)
(* wrapped weight_limit (negative here) is above every sum of weights, so  *)
(* every quotient available / weight is above 1.                           *)
FGBody(its, sack, new_item, weight_limit) ==
    LET used_knapsack_weight == EffectiveWeightSum(its, sack)
        available_knapsack_weight ==
            FractionSub(FractionFrom(weight_limit), used_knapsack_weight)
    IN  IF weight_limit >= 0 /\ PartialCmp(available_knapsack_weight, Zero) # "Greater"
        THEN [brk |-> TRUE, knapsack |-> sack]
        ELSE LET quotient == FractionDiv(available_knapsack_weight,
                                         FractionFrom(its[new_item].weight))
                 take_fraction ==
                     IF weight_limit < 0 \/ PartialCmp(quotient, One) = "Greater"
                     THEN One ELSE quotient
             IN  [brk |-> FALSE,
                  knapsack |-> Append(sack, [item |-> new_item,
                                          take_portion |-> take_fraction])]

RECURSIVE FGLoop(_, _, _, _)
FGLoop(its, sorted, sack, weight_limit) ==
    IF sorted = <<>> THEN sack
    ELSE LET r == FGBody(its, sack, Head(sorted), weight_limit)
         IN  IF r.brk THEN r.knapsack
             ELSE FGLoop(its, Tail(sorted), r.knapsack, weight_limit)

(* The packed items the solver returns for the item references refs. *)
fractional_knapsack_greedy(its, refs, weight_limit) ==
    FGLoop(its, SortByRatio(its, refs), <<>>, weight_limit)

FGInit ==
    \E inst \in GreedyInstances :
        /\ items = inst.items
        /\ weight_capacity = inst.cap
        /\ overflow_checks = TRUE
        /\ pc = "fg_sort"
        /\ items_sorted_asc = <<>>
        /\ item_index = 0
        /\ knapsack = <<>>
        /\ result = <<>>
        /\ DPIdle /\ BBIdle /\ GKIdle /\ SSIdle

FGSort ==
    /\ pc = "fg_sort"
    /\ IF SortPanics(items, AllRefs(items))
       THEN pc' = "panic" /\ UNCHANGED items_sorted_asc
       ELSE /\ items_sorted_asc' = SortByRatio(items, AllRefs(items))
            /\ pc' = "fg"
    /\ UNCHANGED <<inputVars, dpVars, ssVars, bbVars, gkVars, item_index, knapsack, result>>

(* One iteration of the loop over the sorted items. *)
FGStep ==
    /\ pc = "fg"
    /\ item_index < Len(items_sorted_asc)
    /\ LET r == FGBody(items, knapsack, items_sorted_asc[item_index + 1],
                       weight_capacity)
       IN  /\ knapsack' = r.knapsack
           /\ IF r.brk
              THEN pc' = "done" /\ result' = r.knapsack /\ UNCHANGED item_index
              ELSE item_index' = item_index + 1 /\ UNCHANGED <<pc, result>>
    /\ UNCHANGED <<inputVars, dpVars, ssVars, bbVars, gkVars, items_sorted_asc>>

FGReturn ==
    /\ pc = "fg"
    /\ item_index = Len(items_sorted_asc)
    /\ result' = knapsack
    /\ pc' = "done"
    /\ UNCHANGED <<inputVars, dpVars, greedyVars, ssVars, bbVars, gkVars>>

FGNext == FGSort \/ FGStep \/ FGReturn

SpecFG == FGInit /\ [][FGNext]_vars

-----------------------------------------------------------------------------
(* The ratio-sorting solvers on items that may have profit 0.              *)

ZeroProfits == 0..1
ZeroWeights == 0..2
ZeroProfitItem == [profit : ZeroProfits, weight : ZeroWeights]

(* A call of fractional_knapsack_greedy or of knapsack_integer_greedy. *)
ZPInit ==
    /\ items \in SeqsUpTo(ZeroProfitItem, MaxItems)
    /\ weight_capacity \in 0..MaxCap
    /\ overflow_checks = TRUE
    /\ pc \in {"fg_sort", "ig_sort"}
    /\ items_sorted_asc = <<>>
    /\ item_index = 0
    /\ knapsack = <<>>
    /\ result = <<>>
    /\ DPIdle /\ BBIdle /\ GKIdle /\ SSIdle

ZPNext == FGNext \/ IGNext

SpecZP == ZPInit /\ [][ZPNext]_vars

-----------------------------------------------------------------------------
(* greedy_k (the function under `pub fn greedy_k` in knapsack.rs).         *)

(* The instance of test_greedy_k. *)
GreedyKItems ==
    << [profit |-> 13, weight |-> 13], [profit |-> 11, weight |-> 11],
       [profit |-> 10, weight |-> 10], [profit |-> 8, weight |-> 8] >>

GreedyKLimit == 30
GreedyKFixed == 2

MaxK == 2

(* Itertools::combinations: the size combinations of lo..n, as increasing  *)
(* sequences in lexicographic order.                                       *)
RECURSIVE Combinations(_, _, _)
Combinations(lo, n, size) ==
    IF size = 0 THEN << <<>> >>
    ELSE IF lo > n THEN <<>>
    ELSE LET with == Combinations(lo + 1, n, size - 1)
         IN  [i \in 1..Len(with) |-> <<lo>> \o with[i]]
                 \o Combinations(lo + 1, n, size)

(* The remaining items with the fixed items left in. *)
RemainingItems_KeepFixed(its, fixed_items) == AllRefs(its)

(* items.iter().filter(|item| fixed_items.contains(item).not()) *)
RemainingItems(its, fixed_items) ==
    SelectSeq(AllRefs(its), LAMBDA i : i \notin {fixed_items[j] : j \in 1..Len(fixed_items)})

(* The closure of .filter: the fixed items weigh less than the limit. *)
GKFilter(its, fixed_items, weight_limit) ==
    U64Lt(WeightSum(its, fixed_items), weight_limit)

(* The closure of .map: integer greedy on the remaining items, with the    *)
(* weight of the fixed items as its capacity, then the fixed items.        *)
GKMap(its, fixed_items, weight_limit) ==
    LET remaining_weight == WeightSum(its, fixed_items)
        remaining_greedy ==
            knapsack_integer_greedy(its, RemainingItems(its, fixed_items),
                                    remaining_weight)
    IN  remaining_greedy \o fixed_items

(* One step of max_by_key: the last knapsack of the largest profit stays. *)
GKMax(its, best, candidate) ==
    IF best = <<>> \/ ProfitSum(its, candidate) >= ProfitSum(its, best[1])
    THEN <<candidate>> ELSE best

RECURSIVE GKLoop(_, _, _, _)
GKLoop(its, combos, best, weight_limit) ==
    IF combos = <<>> THEN best
    ELSE GKLoop(its, Tail(combos),
                IF GKFilter(its, Head(combos), weight_limit)
                THEN GKMax(its, best, GKMap(its, Head(combos), weight_limit))
                ELSE best,
                weight_limit)

(* .unwrap_or_default() *)
UnwrapOrDefault(best) == IF best = <<>> THEN <<>> ELSE best[1]

greedy_k(its, weight_limit, size) ==
    UnwrapOrDefault(GKLoop(its, Combinations(1, Len(its), size), <<>>, weight_limit))

GKInit ==
    /\ \/ \E inst \in Enumerated, n \in 0..MaxK :
              /\ items = inst.items
              /\ weight_capacity = inst.cap
              /\ k = n
       \/ /\ items = GreedyKItems
          /\ weight_capacity = GreedyKLimit
          /\ k = GreedyKFixed
    /\ overflow_checks = TRUE
    /\ combination_nr = 0
    /\ best_knapsack = <<>>
    /\ pc = "gk"
    /\ result = <<>>
    /\ DPIdle /\ GreedyIdle /\ BBIdle /\ SSIdle

(* The iterator chain for the next combination. *)
GKStep ==
    /\ pc = "gk"
    /\ combination_nr < Len(Combinations(1, Len(items), k))
    /\ LET fixed_items == Combinations(1, Len(items), k)[combination_nr + 1]
       IN  best_knapsack' =
               IF GKFilter(items, fixed_items, weight_capacity)
               THEN GKMax(items, best_knapsack,
                          GKMap(items, fixed_items, weight_capacity))
               ELSE best_knapsack
    /\ combination_nr' = combination_nr + 1
    /\ UNCHANGED <<pc, inputVars, k, dpVars, greedyVars, bbVars, ssVars, result>>

GKReturn ==
    /\ pc = "gk"
    /\ combination_nr = Len(Combinations(1, Len(items), k))
    /\ result' = UnwrapOrDefault(best_knapsack)
    /\ pc' = "done"
    /\ UNCHANGED <<inputVars, gkVars, dpVars, greedyVars, bbVars, ssVars>>

GKNext == GKStep \/ GKReturn

SpecGK == GKInit /\ [][GKNext]_vars

-----------------------------------------------------------------------------
(* knapsack_branch_and_bound and knapsack_branch_and_bound_recursive.      *)

(* The instance of test_branch_and_bound_2. *)
BranchBoundItems ==
    << [profit |-> 14, weight |-> 11], [profit |-> 6, weight |-> 5],
       [profit |-> 13, weight |-> 13], [profit |-> 16, weight |-> 18],
       [profit |-> 9, weight |-> 7] >>

BranchBoundLimit == 33

Max(a, b) == IF a >= b THEN a ELSE b

(* items_profit_sum: the sum it computes maps each item to its weight. *)
items_profit_sum(its, refs) == WeightSum(its, refs)

(* fraction_to_u64: the fraction printed with no digit after the dot, which *)
(* is its integer part, parsed as a u64; "inf" and "NaN" do not parse.      *)
fraction_to_u64(f) == IF IsFinite(f) THEN f.num \div f.den ELSE -1

Frame(refs, weight_limit, current_profit, best_profit) ==
    [items |-> refs, weight_limit |-> weight_limit,
     current_profit |-> current_profit, best_profit |-> best_profit,
     stage |-> "enter", profit_exclude_first |-> 0]

BBLowerBound(its, f) ==
    f.current_profit
        + items_profit_sum(its, knapsack_integer_greedy(its, f.items, f.weight_limit))

BBUpperBound(its, f) ==
    f.current_profit
        + fraction_to_u64(packed_items_profit_sum(its,
              fractional_knapsack_greedy(its, f.items, f.weight_limit)))

Top == stack[Len(stack)]
Pop == SubSeq(stack, 1, Len(stack) - 1)
SetTop(f) == [stack EXCEPT ![Len(stack)] = f]

(* The inputs of the recursion: the item lists over a small range of       *)
(* profits and weights with every capacity, and the two test instances.    *)
BBProfits == 1..2
BBWeights == 0..2
BBItem == [profit : BBProfits, weight : BBWeights]

BBInstances ==
    {[items |-> s, cap |-> c] : s \in SeqsUpTo(BBItem, MaxItems), c \in 0..MaxCap}
        \cup {[items |-> MaxKnapsackItems, cap |-> MaxKnapsackLimit],
              [items |-> BranchBoundItems, cap |-> BranchBoundLimit]}

BBInit ==
    \E inst \in BBInstances :
        /\ items = inst.items
        /\ weight_capacity = inst.cap
        /\ overflow_checks \in BOOLEAN
        /\ pc = "bb_sort"
        /\ BBIdle
        /\ result = 0
        /\ DPIdle /\ GreedyIdle /\ GKIdle /\ SSIdle

(* knapsack_branch_and_bound: sort, then the first call of the recursion. *)
BBSort ==
    /\ pc = "bb_sort"
    /\ stack' = <<Frame(SortByRatio(items, AllRefs(items)), weight_capacity, 0, 0)>>
    /\ pc' = "bb"
    /\ UNCHANGED <<inputVars, dpVars, greedyVars, gkVars, ssVars,
                   ret, lower_bound, upper_bound, result>>

(* The call that returns 0 when it is pruned or has no items left. *)
BBEnter_ReturnZero ==
    /\ pc = "bb"
    /\ stack # <<>>
    /\ Top.stage = "enter"
    /\ LET lower == BBLowerBound(items, Top)
           best == Max(Top.best_profit, lower)
           upper == BBUpperBound(items, Top)
       IN  /\ lower_bound' = lower
           /\ upper_bound' = upper
           /\ IF upper > best /\ Top.items # <<>>
              THEN /\ stack' =
                         Append(SetTop([Top EXCEPT !.best_profit = best,
                                                   !.stage = "exclude"]),
                                Frame(Tail(Top.items), Top.weight_limit,
                                      Top.current_profit, best))
                   /\ UNCHANGED ret
              ELSE stack' = Pop /\ ret' = 0
    /\ UNCHANGED <<pc, inputVars, dpVars, greedyVars, gkVars, ssVars, result>>

(* A call starts: the bounds, then the branch on the first item (the call  *)
(* that excludes it) or the return of the best profit.                     *)
BBEnter ==
    /\ pc = "bb"
    /\ stack # <<>>
    /\ Top.stage = "enter"
    /\ LET lower == BBLowerBound(items, Top)
           best == Max(Top.best_profit, lower)
           upper == BBUpperBound(items, Top)
       IN  /\ lower_bound' = lower
           /\ upper_bound' = upper
           /\ IF upper > best
              THEN IF Top.items = <<>>
                   THEN stack' = Pop /\ ret' = 0
                   ELSE /\ stack' =
                              Append(SetTop([Top EXCEPT !.best_profit = best,
                                                        !.stage = "exclude"]),
                                     Frame(Tail(Top.items), Top.weight_limit,
                                           Top.current_profit, best))
                        /\ UNCHANGED ret
              ELSE stack' = Pop /\ ret' = best
    /\ UNCHANGED <<pc, inputVars, dpVars, greedyVars, gkVars, ssVars, result>>

(* The excluding call has returned: the call that includes the first item, *)
(* with the weight limit reduced by an unchecked subtraction.              *)
BBAfterExclude ==
    /\ pc = "bb"
    /\ stack # <<>>
    /\ Top.stage = "exclude"
    /\ LET first == items[Head(Top.items)]
       IN  IF Underflows(Top.weight_limit, first.weight) /\ overflow_checks
           THEN pc' = "panic" /\ UNCHANGED stack
           ELSE /\ stack' =
                      Append(SetTop([Top EXCEPT !.profit_exclude_first = ret,
                                                !.stage = "include"]),
                             Frame(Tail(Top.items),
                                   U64Sub(Top.weight_limit, first.weight),
                                   Top.current_profit + first.profit,
                                   Top.best_profit))
                /\ UNCHANGED pc
    /\ UNCHANGED <<inputVars, dpVars, greedyVars, gkVars, ssVars,
                   ret, lower_bound, upper_bound, result>>

(* The including call has returned: the best of the three profits. *)
BBAfterInclude ==
    /\ pc = "bb"
    /\ stack # <<>>
    /\ Top.stage = "include"
    /\ ret' = Max(Top.best_profit, Max(Top.profit_exclude_first, ret))
    /\ stack' = Pop
    /\ UNCHANGED <<pc, inputVars, dpVars, greedyVars, gkVars, ssVars,
                   lower_bound, upper_bound, result>>

BBReturn ==
    /\ pc = "bb"
    /\ stack = <<>>
    /\ result' = ret
    /\ pc' = "done"
    /\ UNCHANGED <<inputVars, dpVars, greedyVars, gkVars, ssVars, bbVars>>

BBNext == BBSort \/ BBEnter \/ BBAfterExclude \/ BBAfterInclude \/ BBReturn

SpecBB == BBInit /\ [][BBNext]_vars

-----------------------------------------------------------------------------
(* subset_sum: the table of reachable sums, one row per prefix.            *)

(* The numbers of the tests and the sums expected to be reachable. *)
NUMBERS == <<7, 13, 17, 20, 29, 31, 31, 35, 57>>

EXPECTED_REACHABLE_SUMS ==
    << 174, 36, 183, 62, 172, 158, 140, 116, 151, 149, 79, 203, 37, 139, 126, 220, 0, 85, 147, 200,
       115, 49, 153, 133, 96, 97, 144, 233, 130, 143, 152, 128, 57, 159, 132, 46, 105, 20, 65, 108,
       74, 138, 89, 179, 163, 185, 118, 101, 44, 52, 77, 123, 184, 191, 202, 170, 135, 17, 48, 88, 71,
       72, 150, 121, 51, 146, 31, 196, 27, 93, 83, 106, 154, 181, 166, 240, 119, 7, 148, 40, 156, 100,
       190, 107, 73, 24, 69, 50, 189, 127, 213, 70, 104, 155, 55, 30, 56, 141, 145, 94, 91, 209, 35,
       175, 182, 160, 165, 211, 84, 178, 167, 42, 180, 110, 134, 187, 112, 216, 13, 53, 95, 142, 81,
       111, 68, 204, 75, 122, 86, 136, 109, 205, 98, 60, 114, 192, 223, 59, 58, 173, 92, 137, 129,
       102, 171, 99, 87, 90, 169, 38, 33, 131, 82, 210, 227, 176, 207, 157, 64, 168, 67, 66, 124, 113,
       161, 188, 29, 198, 125, 103, 117, 80, 194, 61 >>

MaxNumbers == 4
MaxNumber == 5

SSInputs == SeqsUpTo(0..MaxNumber, MaxNumbers) \cup {NUMBERS}

(* The loop body that adds the new number alone, not the sums with it. *)
NewRow_OnlyNumber(last_row, new_number) == last_row \cup {new_number}

(* The loop body that keeps only the shifted sums. *)
NewRow_NoCopy(last_row, new_number) ==
    {already_reachable_number + new_number : already_reachable_number \in last_row}

(* The body of the loop: the last row and each of its sums plus new_number. *)
NewRow(last_row, new_number) ==
    last_row \cup
        {already_reachable_number + new_number : already_reachable_number \in last_row}

RECURSIVE SSLoop(_, _, _)
SSLoop(nums, t, i) ==
    IF i > Len(nums) THEN t
    ELSE SSLoop(nums, Append(t, NewRow(t[Len(t)], nums[i])), i + 1)

subset_sum(nums) ==
    IF Len(nums) = 0 THEN <<>> ELSE SSLoop(nums, <<{0}>>, 1)

SSInit ==
    /\ numbers \in SSInputs
    /\ table = <<>>
    /\ pc = "ss_start"
    /\ result = <<>>
    /\ KnapsackIdle /\ DPIdle /\ GreedyIdle /\ BBIdle /\ GKIdle

(* The early return for no numbers, else the row of the first 0 numbers. *)
SSStart ==
    /\ pc = "ss_start"
    /\ IF Len(numbers) = 0
       THEN pc' = "done" /\ result' = table /\ UNCHANGED table
       ELSE pc' = "ss" /\ table' = Append(table, {0}) /\ UNCHANGED result
    /\ UNCHANGED <<inputVars, dpVars, greedyVars, bbVars, gkVars, numbers>>

(* One iteration of the loop over the numbers: iteration i appends row i. *)
SSStep ==
    /\ pc = "ss"
    /\ Len(table) <= Len(numbers)
    /\ table' = Append(table, NewRow(table[Len(table)], numbers[Len(table)]))
    /\ UNCHANGED <<pc, inputVars, dpVars, greedyVars, bbVars, gkVars, numbers, result>>

SSReturn ==
    /\ pc = "ss"
    /\ Len(table) = Len(numbers) + 1
    /\ result' = table
    /\ pc' = "done"
    /\ UNCHANGED <<inputVars, dpVars, greedyVars, ssVars, bbVars, gkVars>>

SSNext == SSStart \/ SSStep \/ SSReturn

SpecSS == SSInit /\ [][SSNext]_vars

(* The full boolean-table variant: rows of total_sum + 1 booleans, index j  *)
(* at position j + 1.  Row 0 has only index 0 set; row i copies row i - 1   *)
(* and sets j + numbers[i - 1] for every index j set in row i - 1, if that  *)
(* index is inside the row.                                                *)
RECURSIVE SumSeq(_)
SumSeq(nums) == IF nums = <<>> THEN 0 ELSE Head(nums) + SumSeq(Tail(nums))

BoolNewRow(last_row, new_number) ==
    [p \in 1..Len(last_row) |->
        \/ last_row[p]
        \/ \E q \in 1..Len(last_row) : last_row[q] /\ q + new_number = p]

RECURSIVE BoolLoop(_, _, _)
BoolLoop(nums, t, i) ==
    IF i > Len(nums) THEN t
    ELSE BoolLoop(nums, Append(t, BoolNewRow(t[Len(t)], nums[i])), i + 1)

subset_sum_full_bool_table(nums) ==
    BoolLoop(nums, << [p \in 1..(SumSeq(nums) + 1) |-> p = 1] >>, 1)

-----------------------------------------------------------------------------
(* Reference notions the claims are stated with. *)

RECURSIVE SetProfit(_, _)
SetProfit(its, S) ==
    IF S = {} THEN 0
    ELSE LET i == CHOOSE x \in S : TRUE
         IN  its[i].profit + SetProfit(its, S \ {i})

RECURSIVE SetWeight(_, _)
SetWeight(its, S) ==
    IF S = {} THEN 0
    ELSE LET i == CHOOSE x \in S : TRUE
         IN  its[i].weight + SetWeight(its, S \ {i})

(* The 0/1 selections of its that respect the weight limit cap. *)
Feasible(its, cap) == {S \in SUBSET (1..Len(its)) : SetWeight(its, S) <= cap}

(* The largest profit of a feasible 0/1 selection. *)
OptProfit(its, cap) ==
    LET P == {SetProfit(its, S) : S \in Feasible(its, cap)}
    IN  CHOOSE m \in P : \A x \in P : x <= m

Range(s) == {s[i] : i \in 1..Len(s)}

-----------------------------------------------------------------------------
(* C1: the selection knapsack_dynamic_programming returns has the largest  *)
(* total profit of all subsets of the items whose total weight is at most  *)
(* the capacity (15 on the test instance, by the items of weight 2 and 7). *)
C1_DPOptimal ==
    pc = "done" =>
        /\ ProfitSum(items, result) = OptProfit(items, weight_capacity)
        /\ (items = MaxKnapsackItems /\ weight_capacity = MaxKnapsackLimit
              => ProfitSum(items, result) = 15 /\ result = <<1, 4>>)

C1_Witness ==
    /\ pc = "done"
    /\ items = MaxKnapsackItems
    /\ weight_capacity = MaxKnapsackLimit
    /\ result = <<1, 4>>

(* C2: the returned selection weighs at most the capacity, and at every    *)
(* moment the item list of cell w weighs at most w.                        *)
C2_DPFeasible ==
    /\ \A w \in 0..weight_capacity : WeightSum(items, row[w + 1]) <= w
    /\ pc = "done" => WeightSum(items, result) <= weight_capacity

C2_Witness ==
    /\ pc = "done"
    /\ Len(result) >= 2
    /\ WeightSum(items, result) = weight_capacity
    /\ \E w \in 0..weight_capacity : row[w + 1] # <<>> /\ row[w + 1] # result

FractionLe(f, g) == PartialCmp(f, g) \in {"Less", "Equal"}

(* C3: the effective weights of the items fractional_knapsack_greedy has   *)
(* packed sum to at most the capacity after every loop iteration, so the   *)
(* available weight an iteration starts with is never negative.            *)
C3_FGFeasible ==
    LET used == EffectiveWeightSum(items, knapsack)
    IN  /\ FractionLe(used, FractionFrom(weight_capacity))
        /\ FractionLe(Zero, FractionSub(FractionFrom(weight_capacity), used))
        /\ pc = "done" =>
              FractionLe(EffectiveWeightSum(items, result),
                         FractionFrom(weight_capacity))

(* The solver stopped with a partly taken item that fills the knapsack. *)
C3_Witness ==
    /\ pc = "done"
    /\ Len(result) >= 2
    /\ result[Len(result)].take_portion.den > 1
    /\ EffectiveWeightSum(items, result) = FractionFrom(weight_capacity)

(* C4: whenever an iteration of knapsack_integer_greedy starts, the weight *)
(* packed so far is at most the capacity (the subtraction                  *)
(* weight_capacity - used_knapsack_weight does not underflow), and the     *)
(* returned selection weighs at most the capacity.                         *)
C4_IGFeasible ==
    /\ pc # "panic"
    /\ ~Underflows(weight_capacity, WeightSum(items, knapsack))
    /\ WeightSum(items, knapsack) <= weight_capacity
    /\ pc = "done" => WeightSum(items, result) <= weight_capacity

(* The heuristic skipped an item that did not fit and took a later one. *)
C4_Witness ==
    /\ pc = "done"
    /\ Len(result) >= 2
    /\ Len(result) < Len(items)
    /\ \E i \in 1..Len(items_sorted_asc) :
          /\ items_sorted_asc[i] \notin Range(result)
          /\ \E j \in (i + 1)..Len(items_sorted_asc) :
                items_sorted_asc[j] \in Range(result)

-----------------------------------------------------------------------------
(* Profits of the solvers' results on item references refs with limit cap. *)

IntegerGreedyProfit(its, refs, cap) ==
    ProfitSum(its, knapsack_integer_greedy(its, refs, cap))

FractionalGreedyProfit(its, refs, cap) ==
    packed_items_profit_sum(its, fractional_knapsack_greedy(its, refs, cap))

DynamicProgrammingProfit(its, cap) ==
    ProfitSum(its, knapsack_dynamic_programming(its, cap))

(* In every call of the recursion the fractional greedy profit is at least *)
(* the integer greedy profit, on the call's items and weight limit.        *)
FractionalDominatesIntegerGreedy ==
    \A d \in 1..Len(stack) :
        FractionLe(FractionFrom(IntegerGreedyProfit(items, stack[d].items,
                                                    stack[d].weight_limit)),
                   FractionalGreedyProfit(items, stack[d].items,
                                          stack[d].weight_limit))

(* C5: the total effective profit of fractional_knapsack_greedy is at      *)
(* least the total profit of knapsack_integer_greedy on the same items and *)
(* capacity, and so in branch-and-bound the lower bound of a call is never *)
(* larger than its upper bound.                                            *)
C5_LowerBoundBelowUpperBound ==
    /\ FractionLe(FractionFrom(IntegerGreedyProfit(items, AllRefs(items),
                                                   weight_capacity)),
                  FractionalGreedyProfit(items, AllRefs(items), weight_capacity))
    /\ lower_bound <= upper_bound

(* C6: the profit branch-and-bound returns equals the profit of the        *)
(* selection of knapsack_dynamic_programming; on the instance of capacity  *)
(* 33 it is 36.                                                            *)
C6_BranchAndBoundExact ==
    /\ pc = "done" => result = DynamicProgrammingProfit(items, weight_capacity)
    /\ (pc \in {"done", "panic"} /\ items = BranchBoundItems
            /\ weight_capacity = BranchBoundLimit)
          => (pc = "done" /\ result = 36)

(* The dynamic program's profit is at least the integer greedy profit. *)
DPDominatesIntegerGreedy ==
    DynamicProgrammingProfit(items, weight_capacity)
        >= IntegerGreedyProfit(items, AllRefs(items), weight_capacity)

(* C7: the profit of knapsack_dynamic_programming's result is at least the *)
(* profit of knapsack_integer_greedy's result and at least the profit of   *)
(* greedy_k's result on the same instance.                                 *)
C7_DPDominatesHeuristics ==
    pc = "done" =>
        /\ DynamicProgrammingProfit(items, weight_capacity)
              >= IntegerGreedyProfit(items, AllRefs(items), weight_capacity)
        /\ DynamicProgrammingProfit(items, weight_capacity)
              >= ProfitSum(items, result)

-----------------------------------------------------------------------------
(* Subset sum: the sums of the sub-multisets of the first i numbers. *)

RECURSIVE SumOver(_, _)
SumOver(nums, S) ==
    IF S = {} THEN 0
    ELSE LET i == CHOOSE x \in S : TRUE
         IN  nums[i] + SumOver(nums, S \ {i})

SubsetSums(nums, i) == {SumOver(nums, S) : S \in SUBSET (1..i)}

(* The answer a table of set rows gives to "is s reachable". *)
SetReachable(t, s) == t # <<>> /\ s \in t[Len(t)]

(* The answer a table of boolean rows gives to "is s reachable". *)
BoolReachable(t, s) == t # <<>> /\ s + 1 <= Len(t[Len(t)]) /\ t[Len(t)][s + 1]

(* Row i of the set table and row i of the boolean table hold the same sums. *)
RowsAgree(st, bt, i, total) ==
    /\ i + 1 <= Len(st)
    /\ i + 1 <= Len(bt)
    /\ \A s \in 0..total : (s \in st[i + 1]) = bt[i + 1][s + 1]

(* C8: for a non-empty sequence of numbers, row i of the table subset_sum  *)
(* builds is exactly the set of the sums of all sub-multisets of the first *)
(* i numbers, for every i in 0..n.                                         *)
C8_RowsAreSubsetSums ==
    Len(numbers) > 0 =>
        /\ \A i \in 1..Len(table) : table[i] = SubsetSums(numbers, i - 1)
        /\ pc = "done" =>
              /\ result = table
              /\ Len(result) = Len(numbers) + 1

(* A finished table for numbers with a repeated value. *)
C8_Witness ==
    /\ pc = "done"
    /\ Len(numbers) >= 3
    /\ Len(result) = Len(numbers) + 1
    /\ \E i, j \in 1..Len(numbers) : i < j /\ numbers[i] = numbers[j] /\ numbers[i] > 0
    /\ Cardinality(result[Len(result)]) > Len(numbers) + 1

(* C9: for every sequence of numbers and every sum s in 0..total_sum the   *)
(* reachable-set table and the full boolean table give the same answer to  *)
(* "is s reachable", row by row.                                           *)
C9_SetAndBoolAgree ==
    pc = "done" =>
        LET bt == subset_sum_full_bool_table(numbers)
            total == SumSeq(numbers)
        IN  /\ \A s \in 0..total : SetReachable(result, s) = BoolReachable(bt, s)
            /\ \A i \in 0..Len(numbers) : RowsAgree(result, bt, i, total)

(* The same agreement for the sequences that have a number. *)
SetAndBoolAgreeNonEmpty ==
    (pc = "done" /\ Len(numbers) > 0) =>
        LET bt == subset_sum_full_bool_table(numbers)
            total == SumSeq(numbers)
        IN  /\ \A s \in 0..total : SetReachable(result, s) = BoolReachable(bt, s)
            /\ \A i \in 0..Len(numbers) : RowsAgree(result, bt, i, total)

(* C10 as stated: for NUMBERS, 174 is reachable, 175 is not, and the final *)
(* row is the 174-element reference set.                                   *)
C10_Original ==
    (pc = "done" /\ numbers = NUMBERS) =>
        LET final == result[Len(result)]
        IN  /\ 174 \in final
            /\ 175 \notin final
            /\ Cardinality(final) = 174
            /\ final = Range(EXPECTED_REACHABLE_SUMS)

(* C10 (amended): for NUMBERS, 174 is reachable, 175 is reachable as well  *)
(* (7 + 20 + 29 + 31 + 31 + 57), and the final row has exactly 174         *)
(* elements and equals the reference set.                                  *)
C10_ReferenceSums ==
    (pc = "done" /\ numbers = NUMBERS) =>
        LET final == result[Len(result)]
        IN  /\ 174 \in final
            /\ 175 \in final
            /\ 175 \in Range(EXPECTED_REACHABLE_SUMS)
            /\ Cardinality(final) = 174
            /\ Len(EXPECTED_REACHABLE_SUMS) = 174
            /\ final = Range(EXPECTED_REACHABLE_SUMS)

C10_Witness ==
    /\ pc = "done"
    /\ numbers = NUMBERS
    /\ Len(result) = 10
    /\ 174 \in result[10]
    /\ 7 + 20 + 29 + 31 + 31 + 57 \in result[10]

-----------------------------------------------------------------------------
(* Fractional greedy: the scenario of the 16 ITEMS and the portions taken. *)

Whole(i) == [item |-> i, take_portion |-> One]

(* C11 as stated: on ITEMS with capacity 120 fractional greedy selects the *)
(* items 6, 4, 13, 12, 3, 9, 16 whole and item 15 at the fraction 6/10.    *)
C11_Original ==
    (pc = "done" /\ items = ITEMS /\ weight_capacity = ItemsWeightCapacity) =>
        Range(result) =
            {Whole(6), Whole(4), Whole(13), Whole(12), Whole(3), Whole(9),
             Whole(16), [item |-> 15, take_portion |-> FractionNew(6, 10)]}

(* C11 (amended): on ITEMS with capacity 120 fractional greedy returns, in *)
(* this order, the items 6, 4, 13, 12, 3, 9 whole and item 15 at the exact *)
(* fraction 6/10; item 16 is not selected and the knapsack is full.        *)
C11_FractionalScenario ==
    (pc = "done" /\ items = ITEMS /\ weight_capacity = ItemsWeightCapacity) =>
        /\ result = << Whole(6), Whole(4), Whole(13), Whole(12), Whole(3),
                       Whole(9),
                       [item |-> 15, take_portion |-> FractionNew(6, 10)] >>
        /\ \A i \in 1..Len(result) : result[i].item # 16
        /\ EffectiveWeightSum(items, result) = FractionFrom(ItemsWeightCapacity)

(* The solver finished on ITEMS with a seventh, partly taken item. *)
C11_Witness ==
    /\ pc = "done"
    /\ items = ITEMS
    /\ weight_capacity = ItemsWeightCapacity
    /\ Len(result) = 7
    /\ result[7].item = 15
    /\ result[7].take_portion = [num |-> 3, den |-> 5]

(* C12: every packed item of fractional_knapsack_greedy has a take_portion *)
(* greater than 0 and at most 1, for weights from 0 and capacities from 0. *)
C12_PortionInRange ==
    /\ \A i \in 1..Len(knapsack) :
          /\ PartialCmp(knapsack[i].take_portion, Zero) = "Greater"
          /\ FractionLe(knapsack[i].take_portion, One)
    /\ pc = "done" =>
          \A i \in 1..Len(result) :
              /\ PartialCmp(result[i].take_portion, Zero) = "Greater"
              /\ FractionLe(result[i].take_portion, One)

(* A weight-0 item was packed whole and a later item only in part. *)
C12_Witness ==
    /\ pc = "done"
    /\ \E i, j \in 1..Len(result) :
          /\ i < j
          /\ items[result[i].item].weight = 0
          /\ result[i].take_portion = One
          /\ result[j].take_portion.den > 1

(* The portions an assignment may give to an item: with weights up to 3    *)
(* every vertex of the relaxation has its portions among these.            *)
PortionGrid ==
    {Zero, FractionNew(1, 3), FractionNew(1, 2), FractionNew(2, 3), One}

(* The assignments of a portion to every item, as lists of packed items. *)
Assignments(its) ==
    {[i \in 1..Len(its) |-> [item |-> i, take_portion |-> a[i]]] :
        a \in [1..Len(its) -> PortionGrid]}

(* The greedy result is at least as profitable as every assignment that    *)
(* fits the capacity.                                                      *)
RelaxationOptimal(its, cap, packed) ==
    \A a \in Assignments(its) :
        FractionLe(EffectiveWeightSum(its, a), FractionFrom(cap))
            => FractionLe(packed_items_profit_sum(its, a),
                          packed_items_profit_sum(its, packed))

(* C13: the total effective profit of fractional_knapsack_greedy is at     *)
(* least the total effective profit of every assignment of portions in     *)
(* [0,1] whose total effective weight is at most the capacity.             *)
C13_RelaxationOptimal ==
    (pc = "done" /\ Len(items) <= MaxItems) =>
        RelaxationOptimal(items, weight_capacity, result)

(* The same when there is capacity to start with or no item weighs 0. *)
RelaxationOptimalWithRoom ==
    (/\ pc = "done"
     /\ Len(items) <= MaxItems
     /\ (weight_capacity > 0 \/ \A i \in 1..Len(items) : items[i].weight > 0)) =>
        RelaxationOptimal(items, weight_capacity, result)

-----------------------------------------------------------------------------
(* greedy_k: feasibility and the profit it is to reach.                    *)

(* C14: the selection greedy_k returns (the fixed combination and the      *)
(* integer greedy picks on the remaining items) weighs at most the         *)
(* capacity, for every item list, capacity and k.                          *)
C14_GreedyKFeasible ==
    /\ \A i \in 1..Len(best_knapsack) :
          WeightSum(items, best_knapsack[i]) <= weight_capacity
    /\ pc = "done" => WeightSum(items, result) <= weight_capacity

(* The combinations of at most size items that weigh at most cap. *)
FittingCombinations(its, cap, size) ==
    {C \in SUBSET (1..Len(its)) :
        Cardinality(C) <= size /\ SetWeight(its, C) <= cap}

(* The profit of combination C with integer greedy on the other items and  *)
(* the capacity C leaves.                                                  *)
CombinationProfit(its, cap, C) ==
    SetProfit(its, C)
        + IntegerGreedyProfit(its,
                              SelectSeq(AllRefs(its), LAMBDA i : i \notin C),
                              cap - SetWeight(its, C))

(* C15: the profit of greedy_k's result is the maximum, over the           *)
(* combinations C of every size 0..k that weigh at most the capacity, of   *)
(* profit(C) + profit(integer greedy on the items outside C with capacity  *)
(* - weight(C)); the result is empty if no combination fits; its profit is *)
(* at least the profit of plain integer greedy.                            *)
C15_GreedyKBestCombination ==
    pc = "done" =>
        LET fitting == FittingCombinations(items, weight_capacity, k)
        IN  /\ fitting = {} => result = <<>>
            /\ \A C \in fitting :
                  CombinationProfit(items, weight_capacity, C)
                      <= ProfitSum(items, result)
            /\ fitting # {} =>
                  \E C \in fitting :
                      CombinationProfit(items, weight_capacity, C)
                          = ProfitSum(items, result)
            /\ ProfitSum(items, result)
                  >= IntegerGreedyProfit(items, AllRefs(items), weight_capacity)

-----------------------------------------------------------------------------
(* Items of profit 0 in the ratio-sorting solvers.                         *)

HasZeroProfit(its) == \E i \in 1..Len(its) : its[i].profit = 0

(* C16: when an input item has profit 0, fractional greedy and integer     *)
(* greedy fail fast with an "incomparable item" error for the caller: they *)
(* neither return a normal result with the item sorted into some position  *)
(* nor panic inside the sort comparator.                                   *)
C16_ZeroProfitFailsFast ==
    HasZeroProfit(items) =>
        /\ pc # "panic"
        /\ pc # "done"

-----------------------------------------------------------------------------
(* C17: for every sequence of n >= 0 numbers, the empty one included,      *)
(* subset_sum returns a table of exactly n + 1 rows whose row 0 is {0}.    *)
C17_TableHasAllRows ==
    pc = "done" =>
        /\ Len(result) = Len(numbers) + 1
        /\ result[1] = {0}

(* The same for the sequences that have a number. *)
TableHasAllRowsNonEmpty ==
    (pc = "done" /\ numbers # <<>>) =>
        /\ Len(result) = Len(numbers) + 1
        /\ result[1] = {0}

-----------------------------------------------------------------------------
(* The walk of knapsack_integer_greedy as a rule over the sorted items.    *)

(* Every item that fits the capacity remaining at its turn is included;    *)
(* the walk goes over all items.                                           *)
RECURSIVE FitWalk(_, _, _, _)
FitWalk(its, sorted, sack, cap) ==
    IF sorted = <<>> THEN sack
    ELSE IF its[Head(sorted)].weight <= cap - WeightSum(its, sack)
         THEN FitWalk(its, Tail(sorted), Append(sack, Head(sorted)), cap)
         ELSE FitWalk(its, Tail(sorted), sack, cap)

(* The same walk, ended as soon as no capacity remains. *)
RECURSIVE FitWalkUntilFull(_, _, _, _)
FitWalkUntilFull(its, sorted, sack, cap) ==
    IF sorted = <<>> \/ cap - WeightSum(its, sack) = 0 THEN sack
    ELSE IF its[Head(sorted)].weight <= cap - WeightSum(its, sack)
         THEN FitWalkUntilFull(its, Tail(sorted), Append(sack, Head(sorted)), cap)
         ELSE FitWalkUntilFull(its, Tail(sorted), sack, cap)

(* C18 as stated: the result is the sequence of the items, in ascending    *)
(* ratio order, that fit the capacity remaining at their turn, weight-0    *)
(* items included, over all items.                                         *)
C18_Original ==
    pc = "done" =>
        result = FitWalk(items, SortByRatio(items, AllRefs(items)), <<>>,
                         weight_capacity)

(* C18 (amended): knapsack_integer_greedy visits the items once in         *)
(* ascending ratio order, includes every visited item that fits the        *)
(* capacity remaining at its turn and skips the others without ending the  *)
(* walk, but ends the walk as soon as the remaining capacity is 0: a       *)
(* weight-0 item whose turn comes then is not included.                    *)
C18_WalkUntilFull ==
    /\ pc = "ig" =>
          knapsack = FitWalkUntilFull(items,
                                      SubSeq(items_sorted_asc, 1, item_index),
                                      <<>>, weight_capacity)
    /\ pc = "done" =>
          /\ result = FitWalkUntilFull(items, SortByRatio(items, AllRefs(items)),
                                       <<>>, weight_capacity)
          /\ items = ITEMS => result = <<6, 4, 13, 12, 3, 9, 16>>

(* The walk skipped an item, took a later one and ended with the knapsack  *)
(* full before the last item.                                              *)
C18_Witness ==
    /\ pc = "done"
    /\ item_index < Len(items_sorted_asc)
    /\ WeightSum(items, result) = weight_capacity
    /\ \E i \in 1..item_index :
          /\ items_sorted_asc[i] \notin Range(result)
          /\ \E j \in (i + 1)..item_index : items_sorted_asc[j] \in Range(result)

-----------------------------------------------------------------------------
(* The calls of the branch-and-bound recursion.                            *)

(* C19: the include branch is entered only if the first item weighs at     *)
(* most the remaining weight limit, so no call gets a limit computed as    *)
(* limit - weight with weight > limit.                                     *)
C19_IncludeOnlyIfFits ==
    /\ pc # "panic"
    /\ \A d \in 1..Len(stack) :
          /\ stack[d].weight_limit >= 0
          /\ stack[d].stage = "include" =>
                items[Head(stack[d].items)].weight <= stack[d].weight_limit

(* The best_profit argument of the call at depth d of the stack. *)
PassedBestProfit(d) == IF d = 1 THEN 0 ELSE stack[d - 1].best_profit

(* C20: every call of the recursion returns a profit that is at least the  *)
(* best_profit it was passed; a call that is pruned or has no items left   *)
(* returns its incumbent (the passed best_profit, or its lower bound when  *)
(* that is larger), never a smaller value such as 0.                       *)
C20_ReturnsAtLeastIncumbent ==
    [][Len(stack') < Len(stack) =>
          /\ ret' >= PassedBestProfit(Len(stack))
          /\ Top.stage = "enter" =>
                ret' = Max(PassedBestProfit(Len(stack)), lower_bound')
          /\ (Top.stage = "enter" /\ Top.items = <<>>) =>
                ret' = Max(PassedBestProfit(Len(stack)), Top.current_profit)]_vars

(* A call that still had an item was pruned and returned the incumbent it  *)
(* was passed, which is above 0 and above the call's lower bound.          *)
C20_Witness ==
    /\ pc = "bb"
    /\ stack # <<>>
    /\ Top.stage = "exclude"
    /\ Len(Top.items) >= 2
    /\ upper_bound <= ret
    /\ ret = Top.best_profit
    /\ ret > lower_bound
    /\ ret > 0

-----------------------------------------------------------------------------
(* The incumbent between the two child calls, and the upper bound.         *)

(* C21: the call that includes the first item receives the incumbent as    *)
(* the excluding call has improved it, not the incumbent its parent had    *)
(* before branching.                                                       *)
C21_IncludeGetsImprovedIncumbent ==
    \A d \in 2..Len(stack) :
        (stack[d - 1].stage = "include" /\ stack[d].stage = "enter") =>
            stack[d].best_profit
                = Max(stack[d - 1].best_profit, stack[d - 1].profit_exclude_first)

(* C22: the floor of the total effective profit of fractional greedy is at *)
(* least the profit of every 0/1 selection of the items that weighs at     *)
(* most the limit.                                                         *)
C22_FloorIsUpperBound ==
    (pc = "done" /\ Len(items) <= MaxItems) =>
        fraction_to_u64(packed_items_profit_sum(items, result))
            >= OptProfit(items, weight_capacity)

(* The same when there is capacity to start with or no item weighs 0. *)
FloorIsUpperBoundWithRoom ==
    (/\ pc = "done"
     /\ Len(items) <= MaxItems
     /\ (weight_capacity > 0 \/ \A i \in 1..Len(items) : items[i].weight > 0)) =>
        fraction_to_u64(packed_items_profit_sum(items, result))
            >= OptProfit(items, weight_capacity)

-----------------------------------------------------------------------------
(* The one-row dynamic program against the classical table.                *)

(* Row i of the table of the recurrence over the first i items, for the   *)
(* capacities 0..cap: table[0][w] = 0 and table[i][w] is the larger of     *)
(* table[i-1][w] and, where item i fits, its profit plus                   *)
(* table[i-1][w - weight].                                                 *)
RECURSIVE TableRow(_, _, _)
TableRow(its, i, cap) ==
    IF i = 0 THEN [w \in 0..cap |-> 0]
    ELSE LET prev == TableRow(its, i - 1, cap)
         IN  [w \in 0..cap |->
                 IF its[i].weight <= w
                 THEN Max(prev[w], its[i].profit + prev[w - its[i].weight])
                 ELSE prev[w]]

(* C23: after the first i items are processed, the profit of the items in  *)
(* row[w] is table[i][w] for every w in 0..capacity, items of weight 0     *)
(* included.  While item i + 1 is being processed right to left, the cells *)
(* above index hold table[i + 1] and the others still hold table[i].       *)
C23_RowRefinesTable ==
    pc = "dp" =>
        LET done == TableRow(items, item_nr, weight_capacity)
            next == IF item_nr < Len(items)
                    THEN TableRow(items, item_nr + 1, weight_capacity)
                    ELSE done
        IN  \A w \in 0..weight_capacity :
                ProfitSum(items, row[w + 1]) =
                    IF index < weight_capacity /\ w > index
                    THEN next[w]
                    ELSE done[w]

(* Two items are processed, one of them of weight 0, and a cell holds both. *)
C23_Witness ==
    /\ pc = "dp"
    /\ item_nr >= 2
    /\ index = weight_capacity
    /\ \E w \in 1..Len(row) :
          /\ Len(row[w]) >= 2
          /\ \E i \in 1..Len(row[w]) : items[row[w][i]].weight = 0

(* C24: after any number of processed items the profit of the row's cells  *)
(* does not decrease along the capacity axis: no cell holds less profit    *)
(* than the cell of the next smaller capacity.                             *)
C24_RowMonotone ==
    \A w \in 1..(Len(row) - 1) :
        ProfitSum(items, row[w]) <= ProfitSum(items, row[w + 1])

(* Items are processed and the profit grows strictly along the row. *)
C24_Witness ==
    /\ pc = "dp"
    /\ item_nr >= 2
    /\ index = weight_capacity
    /\ Len(row) >= 3
    /\ ProfitSum(items, row[1]) < ProfitSum(items, row[2])
    /\ ProfitSum(items, row[2]) < ProfitSum(items, row[Len(row)])

(* C25: the assertion remaining_weight < row.len() holds at every cell     *)
(* update, for every item weight from 0 and every capacity: it never       *)
(* fires.                                                                  *)
C25_AssertHolds ==
    /\ pc # "panic"
    /\ (pc = "dp" /\ item_nr < Len(items)
            /\ items[item_nr + 1].weight <= index) =>
          SaturatingSub(index, items[item_nr + 1].weight) < Len(row)

(* A cell was updated from the sub-solution of a smaller, non-empty cell. *)
C25_Witness ==
    /\ pc = "dp"
    /\ item_nr < Len(items)
    /\ index < weight_capacity
    /\ items[item_nr + 1].weight > 0
    /\ items[item_nr + 1].weight <= index
    /\ Len(row[index + 2]) >= 2
    /\ row[index + 2][Len(row[index + 2])] = item_nr + 1

-----------------------------------------------------------------------------
(* The three 0/1 solvers side by side, and the two greedy solvers side by  *)
(* side, each on the same item lists.                                      *)

(* A 0/1 solver starts: the dynamic program, integer greedy or greedy_k,   *)
(* on an enumerated item list or on the instance of its own test.          *)
ZeroOneInit ==
    /\ \/ /\ items \in SeqsUpTo(BBItem, MaxItems)
          /\ weight_capacity \in 0..MaxCap
          /\ pc \in {"dp", "ig_sort", "gk"}
          /\ k \in IF pc = "gk" THEN 0..MaxK ELSE {0}
       \/ /\ items = MaxKnapsackItems
          /\ weight_capacity = MaxKnapsackLimit
          /\ pc = "dp"
          /\ k = 0
       \/ /\ items = ITEMS
          /\ weight_capacity = ItemsWeightCapacity
          /\ pc = "ig_sort"
          /\ k = 0
       \/ /\ items = GreedyKItems
          /\ weight_capacity = GreedyKLimit
          /\ pc = "gk"
          /\ k = GreedyKFixed
    /\ overflow_checks = TRUE
    /\ row = IF pc = "dp" THEN EmptyRow(weight_capacity) ELSE <<>>
    /\ item_nr = 0
    /\ index = IF pc = "dp" THEN weight_capacity ELSE 0
    /\ combination_nr = 0
    /\ best_knapsack = <<>>
    /\ result = <<>>
    /\ GreedyIdle /\ BBIdle /\ SSIdle

ZeroOneNext == DPNext \/ IGNext \/ GKNext

SpecZeroOne == ZeroOneInit /\ [][ZeroOneNext]_vars

(* A greedy solver starts: fractional or integer greedy, on an enumerated  *)
(* item list or on ITEMS.                                                  *)
GreedyInit ==
    /\ \/ /\ items \in SeqsUpTo(BBItem, MaxItems)
          /\ weight_capacity \in 0..MaxCap
       \/ /\ items = ITEMS
          /\ weight_capacity = ItemsWeightCapacity
    /\ pc \in {"fg_sort", "ig_sort"}
    /\ overflow_checks = TRUE
    /\ items_sorted_asc = <<>>
    /\ item_index = 0
    /\ knapsack = <<>>
    /\ result = <<>>
    /\ DPIdle /\ BBIdle /\ GKIdle /\ SSIdle

GreedyNext == FGNext \/ IGNext

SpecGreedy == GreedyInit /\ [][GreedyNext]_vars

NoDuplicates(seq) ==
    \A i, j \in 1..Len(seq) : i # j => seq[i] # seq[j]

(* C26: the output of the dynamic program, of integer greedy and of        *)
(* greedy_k holds each input item at most once; in the dynamic program so  *)
(* does every cell of the row in every state, although the cells are       *)
(* overwritten in place.                                                   *)
C26_NoDuplicateItems ==
    /\ \A w \in 1..Len(row) : NoDuplicates(row[w])
    /\ NoDuplicates(knapsack)
    /\ NoDuplicates(best_knapsack)
    /\ pc = "done" => NoDuplicates(result)

(* The dynamic program has overwritten a cell by a cell of the same row    *)
(* extended with a weight-0 item, and the cell holds three items.          *)
C26_Witness ==
    /\ pc = "dp"
    /\ item_nr = Len(items)
    /\ \E w \in 1..Len(row) :
          /\ Len(row[w]) >= 3
          /\ \E i \in 1..Len(row[w]) : items[row[w][i]].weight = 0

(* C27: in the list fractional_knapsack_greedy returns the packed items    *)
(* are a prefix of the ratio-sorted items, every packed item but the last  *)
(* has take_portion 1, and a last take_portion below 1 means the effective *)
(* weight is the capacity exactly.                                         *)
C27_PrefixWholeThenFraction ==
    pc = "done" =>
        /\ Len(result) <= Len(items_sorted_asc)
        /\ \A i \in 1..Len(result) : result[i].item = items_sorted_asc[i]
        /\ \A i \in 1..(Len(result) - 1) : result[i].take_portion = One
        /\ (Len(result) > 0
                /\ PartialCmp(result[Len(result)].take_portion, One) = "Less") =>
              EffectiveWeightSum(items, result) = FractionFrom(weight_capacity)

(* Items were taken whole, the last one in part, and an item is left. *)
C27_Witness ==
    /\ pc = "done"
    /\ Len(result) >= 2
    /\ Len(items_sorted_asc) > Len(result)
    /\ PartialCmp(result[Len(result)].take_portion, One) = "Less"

(* The position of reference x in the sequence refs. *)
PositionIn(refs, x) == CHOOSE i \in 1..Len(refs) : refs[i] = x

(* The sorted sequence is a permutation of the input ordered by ratio,    *)
(* with equal ratios in input order, and the solvers pack along it.        *)
SortedStably ==
    pc \in {"fg", "ig", "done"} =>
        /\ Len(items_sorted_asc) = Len(items)
        /\ Range(items_sorted_asc) = 1..Len(items)
        /\ \A i, j \in 1..Len(items_sorted_asc) :
              i < j =>
                  LET c == cmp_items(items, items_sorted_asc[i],
                                     items_sorted_asc[j])
                  IN  /\ c \in {"Less", "Equal"}
                      /\ c = "Equal" => items_sorted_asc[i] < items_sorted_asc[j]
        /\ items = ITEMS => SubSeq(items_sorted_asc, 5, 7) = <<3, 9, 15>>
        /\ pc = "ig" =>
              \A i, j \in 1..Len(knapsack) :
                  i < j => PositionIn(items_sorted_asc, knapsack[i])
                              < PositionIn(items_sorted_asc, knapsack[j])
        /\ pc = "fg" =>
              \A i, j \in 1..Len(knapsack) :
                  i < j => PositionIn(items_sorted_asc, knapsack[i].item)
                              < PositionIn(items_sorted_asc, knapsack[j].item)

(* A solver that finishes returns what the input sequence determines; on   *)
(* ITEMS fractional greedy returns 3, 9, 15 as its fifth to seventh item.  *)
ReturnsDetermined ==
    /\ (pc = "fg" /\ pc' = "done") =>
          /\ result' = fractional_knapsack_greedy(items, AllRefs(items),
                                                  weight_capacity)
          /\ items = ITEMS =>
                <<result'[5].item, result'[6].item, result'[7].item>>
                    = <<3, 9, 15>>
    /\ (pc = "ig" /\ pc' = "done") =>
          result' = knapsack_integer_greedy(items, AllRefs(items),
                                            weight_capacity)

(* C28: fractional greedy and integer greedy process items of equal        *)
(* weight/profit ratio in their input order (the sort compares the ratio   *)
(* only and is stable), so the output is a function of the input sequence; *)
(* on ITEMS the ratio-4 items 3, 9, 15 are processed, and by fractional    *)
(* greedy taken, one after the other in that order.                        *)
C28_TiesInInputOrder == []SortedStably /\ [][ReturnsDetermined]_vars

(* Three items of one ratio, the first two of them alike, were sorted and  *)
(* the first two packed.                                                   *)
C28_Witness ==
    /\ pc = "done"
    /\ Len(items) = 3
    /\ items[1] = items[2]
    /\ cmp_items(items, 1, 3) = "Equal"
    /\ items[1] # items[3]
    /\ Len(result) >= 2

-----------------------------------------------------------------------------
(* The subset-sum table as it grows, and the helper of the lower bound.    *)

(* Every row holds 0 and the sums of the row before it. *)
RowsGrow ==
    \A i \in 1..Len(table) :
        /\ 0 \in table[i]
        /\ i > 1 => table[i - 1] \subseteq table[i]

(* A step that changes the table appends one row and leaves the earlier    *)
(* rows as they are; a row after row 0 holds the sums of the last row,     *)
(* each with and without the next number, and nothing else.                *)
AppendsOneRow ==
    table' # table =>
        /\ Len(table') = Len(table) + 1
        /\ SubSeq(table', 1, Len(table)) = table
        /\ Len(table) = 0 => table'[1] = {0}
        /\ Len(table) > 0 =>
              table'[Len(table')] =
                  {s + b * numbers[Len(table)] :
                      s \in table[Len(table)], b \in {0, 1}}

(* C29: the subset-sum table is append-only: appending row i leaves the    *)
(* rows 0..i-1 unchanged, row i is determined by row i-1 and               *)
(* numbers[i-1], every row is a superset of the row before it and 0 is in  *)
(* every row.                                                              *)
C29_AppendOnly == []RowsGrow /\ [][AppendsOneRow]_vars

(* Three rows are computed and each of the later two added a sum. *)
C29_Witness ==
    /\ pc = "ss"
    /\ Len(table) >= 3
    /\ table[1] # table[2]
    /\ table[2] # table[3]

(* C30: items_profit_sum returns the sum of the profit fields of the items *)
(* it is given, so the lower bound of a call, current_profit plus          *)
(* items_profit_sum of the integer greedy selection, is the profit of that *)
(* selection.                                                              *)
C30_ProfitSumIsProfit ==
    \A d \in 1..Len(stack) :
        LET greedy == knapsack_integer_greedy(items, stack[d].items,
                                              stack[d].weight_limit)
        IN  /\ items_profit_sum(items, greedy) = ProfitSum(items, greedy)
            /\ BBLowerBound(items, stack[d])
                  = stack[d].current_profit + ProfitSum(items, greedy)

====
